---- MODULE Spec2Model ----
(***************************************************************************)
(* custodian/qchem/new_handlers.py: the QChem error handlers.              *)
(*                                                                         *)
(* QChemErrorHandler keeps an input deck (qcinp: the $rem settings and     *)
(* the molecule) in memory, reads the error tags of a finished run in      *)
(* check(), and in correct() takes the first matching branch of an elif    *)
(* chain over the tags, edits the deck, writes it to the input file and    *)
(* returns {errors, actions}.  QChemSCFErrorHandler is the second handler. *)
(***************************************************************************)
EXTENDS Integers, Sequences, FiniteSets, TLC

VARIABLES
    qcinp,            \* self.qcinp: [rem: dict, molecule: record]
    disk,             \* contents of the input file self.input_file
    scf_max_cycles,   \* self.scf_max_cycles
    geom_max_cycles,  \* self.geom_max_cycles
    outdata,          \* self.outdata (None before the first check())
    errors,           \* self.errors  (None before the first check())
    pc,               \* position of the caller: "check", "correct", "run", "done", "crashed"
    ret,              \* outcome of the last correct() call
    pre,              \* deck and file as they were when the last correct() was entered
    wrote,            \* the last correct() call reached write_file
    branch,           \* branch of the elif chain the last correct() call took
    rung,             \* remedy of the last correct() call that returned a list (0: none yet)
    edits,            \* correct() calls that returned a non-empty action list
    adoptions,        \* of those, the calls that adopted the last geometry
    scfh              \* QChemSCFErrorHandler(...): state of the construction

vars == <<qcinp, disk, scf_max_cycles, geom_max_cycles, outdata, errors,
          pc, ret, pre, wrote, branch, rung, edits, adoptions, scfh>>

----------------------------------------------------------------------------
(* Bounds of the model *)

\* most tags one output file reports
MaxTags == 2
\* most steps of an energy trajectory
MaxTraj == 2
\* most correct() calls with a non-empty action list that are followed
MaxEdits == 4
\* most settings the $rem section of the input file holds at construction
MaxSettings == 2

(* Program constants *)

\* default of scf_max_cycles and geom_max_cycles
DefaultMaxCycles == 200

----------------------------------------------------------------------------
(* Python values *)

None == <<>>
Some(x) == <<x>>

\* dict.get(k, default)
get(d, k, default) == IF k \in DOMAIN d THEN d[k] ELSE default

\* dict.get(k) != v  (a missing key gives None, which differs from every v)
get_ne(d, k, v) == ~(k \in DOMAIN d /\ d[k] = v)

\* truth value of dict.get(k): None and False are falsy
get_truthy(d, k) == k \in DOMAIN d /\ d[k] = TRUE

\* d[k] = v
setitem(d, k, v) == [x \in DOMAIN d \cup {k} |-> IF x = k THEN v ELSE d[x]]

\* str.lower() on the algorithm names of the model
lower(s) ==
    CASE s = "DIIS" -> "diis"
      [] s = "RCA_DIIS" -> "rca_diis"
      [] OTHER -> s

\* one action record {key: value}
Act(k, v) == [key |-> k, value |-> v]

\* the three shapes of the "actions" field of the return value
ActList(s) == [type |-> "list", list |-> s, str |-> ""]
ActNone == [type |-> "NoneType", list |-> <<>>, str |-> ""]
ActStr(s) == [type |-> "str", list |-> <<>>, str |-> s]

----------------------------------------------------------------------------
(* Names visible to the code of the module *)

Builtins == {"print", "len", "AssertionError", "NameError", "True", "False", "None"}

ModuleGlobals ==
    {"shutil", "time", "copy", "glob", "json", "logging", "os", "re", "tarfile",
     "np", "Molecule", "QCInput", "QCOutput", "ErrorHandler", "backup",
     "unicode_literals", "division",
     "QChemErrorHandler", "QChemSCFErrorHandler"}

\* a read of `name` in a function with local names `locals` succeeds
NameDefined(name, locals) == name \in locals \cup ModuleGlobals \cup Builtins

----------------------------------------------------------------------------
(* Values the model draws from *)

\* the tags the elif chain of correct() tests, and one it does not
Tags ==
    {"SCF_failed_to_converge", "out_of_opt_cycles", "unable_to_determine_lamda",
     "linear_dependent_basis", "failed_to_transform_coords", "input_file_error",
     "failed_to_read_input", "IO_error", "cannot_read_charges", "unknown_error",
     "basis_not_supported"}

ErrorSets == {E \in SUBSET Tags : Cardinality(E) <= MaxTags}

\* settings hold values of the types correct() itself stores: integers for
\* the cycle caps, strings for the algorithm, booleans for the symmetry flags
CycleVals == {DefaultMaxCycles, DefaultMaxCycles + 100}
ScfLimitVals == {DefaultMaxCycles - 100, DefaultMaxCycles}
GeomLimitVals == {DefaultMaxCycles}
AlgVals == {"DIIS", "rca_diis", "RCA_DIIS"}

EmptyDict == [k \in {} |-> 0]
Opt(k, S) == {EmptyDict} \cup {(k :> v) : v \in S}

AllRemVals ==
    {a @@ b @@ c @@ d @@ e :
        a \in Opt("max_scf_cycles", CycleVals),
        b \in Opt("geom_opt_max_cycles", CycleVals),
        c \in Opt("scf_algorithm", AlgVals),
        d \in Opt("sym_ignore", {TRUE}),
        e \in Opt("symmetry", BOOLEAN)}

RemVals == {r \in AllRemVals : Cardinality(DOMAIN r) <= MaxSettings}

\* the molecule of the input deck, and the molecules a run can end with
InputMolecule == [spin_multiplicity |-> 1, charge |-> 0, geometry |-> "input"]
LastMolecules ==
    {[spin_multiplicity |-> 1, charge |-> 0, geometry |-> "last_a"],
     [spin_multiplicity |-> 1, charge |-> 0, geometry |-> "last_b"],
     [spin_multiplicity |-> 3, charge |-> 0, geometry |-> "last_a"],
     [spin_multiplicity |-> 1, charge |-> 1, geometry |-> "last_a"]}

Trajectories == UNION {[1..n -> {0}] : n \in 1..MaxTraj}

\* what QCOutput(output_file).data holds of a finished run
OutFiles ==
    [errors : ErrorSets, energy_trajectory : Trajectories,
     molecule_from_last_geometry : LastMolecules]

NoRet == [outcome |-> "none", errors |-> {}, actions |-> ActNone]

----------------------------------------------------------------------------
(* QChemErrorHandler.correct: the branches of the elif chain.  Each gives  *)
(* the deck after the branch, the action list, and how the branch ended:   *)
(*   "fall"   it falls through to write_file and the final return          *)
(*   "return" it returns on its own (`early` is the actions field)         *)
(*   else     the exception it raises                                      *)
(***************************************************************************)

Fall(q, acts) == [qcinp |-> q, actions |-> acts, end |-> "fall", early |-> ActNone]
Early(q, a) == [qcinp |-> q, actions |-> <<>>, end |-> "return", early |-> a]
Raise(q, exc) == [qcinp |-> q, actions |-> <<>>, end |-> exc, early |-> ActNone]

SetRem(q, k, v) == [q EXCEPT !.rem = setitem(q.rem, k, v)]

\* variant: the algorithm is looked at before the cycle cap
SCF_algorithm_first(q, scfLim) ==
    IF lower(get(q.rem, "scf_algorithm", "diis")) = "diis"
    THEN Fall(SetRem(q, "scf_algorithm", "rca_diis"), <<Act("scf_algorithm", "rca_diis")>>)
    ELSE IF get_ne(q.rem, "max_scf_cycles", scfLim)
    THEN Fall(SetRem(q, "max_scf_cycles", scfLim), <<Act("max_scf_cycles", scfLim)>>)
    ELSE Fall(q, <<>>)

SCF_failed_to_converge(q, scfLim) ==
    IF get_ne(q.rem, "max_scf_cycles", scfLim)
    THEN Fall(SetRem(q, "max_scf_cycles", scfLim), <<Act("max_scf_cycles", scfLim)>>)
    ELSE IF lower(get(q.rem, "scf_algorithm", "diis")) = "diis"
    THEN Fall(SetRem(q, "scf_algorithm", "rca_diis"), <<Act("scf_algorithm", "rca_diis")>>)
    ELSE Fall(q, <<>>)

out_of_opt_cycles(q, scfLim, geomLim) ==
    IF get_ne(q.rem, "geom_opt_max_cycles", geomLim)
    THEN Fall(SetRem(q, "geom_opt_max_cycles", geomLim), <<Act("geom_max_cycles:", scfLim)>>)
    ELSE Fall(q, <<>>)

\* variant: a trajectory of one step counts as a geometry step
unable_to_determine_lamda_any_step(q, out) ==
    IF Len(out.energy_trajectory) > 0
    THEN IF q.molecule.spin_multiplicity # out.molecule_from_last_geometry.spin_multiplicity
         THEN Raise(q, "AssertionError")
         ELSE IF q.molecule.charge # out.molecule_from_last_geometry.charge
         THEN Raise(q, "AssertionError")
         ELSE Fall([q EXCEPT !.molecule = out.molecule_from_last_geometry],
                   <<Act("molecule", "molecule_from_last_geometry")>>)
    ELSE IF lower(get(q.rem, "scf_algorithm", "diis")) # "rca_diis"
    THEN Fall(SetRem(q, "scf_algorithm", "rca_diis"), <<Act("scf_algorithm", "rca_diis")>>)
    ELSE Fall(q, <<>>)

\* variant: the charge is not asserted
unable_to_determine_lamda_no_charge_assert(q, out) ==
    IF Len(out.energy_trajectory) > 1
    THEN IF q.molecule.spin_multiplicity # out.molecule_from_last_geometry.spin_multiplicity
         THEN Raise(q, "AssertionError")
         ELSE Fall([q EXCEPT !.molecule = out.molecule_from_last_geometry],
                   <<Act("molecule", "molecule_from_last_geometry")>>)
    ELSE IF lower(get(q.rem, "scf_algorithm", "diis")) # "rca_diis"
    THEN Fall(SetRem(q, "scf_algorithm", "rca_diis"), <<Act("scf_algorithm", "rca_diis")>>)
    ELSE Fall(q, <<>>)

unable_to_determine_lamda(q, out) ==
    IF Len(out.energy_trajectory) > 1
    THEN IF q.molecule.spin_multiplicity # out.molecule_from_last_geometry.spin_multiplicity
         THEN Raise(q, "AssertionError")
         ELSE IF q.molecule.charge # out.molecule_from_last_geometry.charge
         THEN Raise(q, "AssertionError")
         ELSE Fall([q EXCEPT !.molecule = out.molecule_from_last_geometry],
                   <<Act("molecule", "molecule_from_last_geometry")>>)
    ELSE IF lower(get(q.rem, "scf_algorithm", "diis")) # "rca_diis"
    THEN Fall(SetRem(q, "scf_algorithm", "rca_diis"), <<Act("scf_algorithm", "rca_diis")>>)
    ELSE Fall(q, <<>>)

\* variant: the algorithm is set whatever it was
linear_dependent_basis_always(q) ==
    Fall(SetRem(q, "scf_algorithm", "rca_diis"), <<Act("scf_algorithm", "rca_diis")>>)

linear_dependent_basis(q) ==
    IF get_ne(q.rem, "scf_algorithm", "rca_diis")
    THEN Fall(SetRem(q, "scf_algorithm", "rca_diis"), <<Act("scf_algorithm", "rca_diis")>>)
    ELSE Fall(q, <<>>)

failed_to_transform_coords(q) ==
    IF ~get_truthy(q.rem, "sym_ignore") \/ get_truthy(q.rem, "symmetry")
    THEN Fall(SetRem(SetRem(q, "sym_ignore", TRUE), "symmetry", FALSE),
              <<Act("sym_ignore", TRUE), Act("symmetry", FALSE)>>)
    ELSE Fall(q, <<>>)

\* variant: the else branch calls print
else_branch_print(q) == Early(q, ActNone)

\* the else branch: Print(...) is a read of the name Print
else_branch(q) ==
    IF NameDefined("Print", {"self", "actions"})
    THEN Early(q, ActNone)
    ELSE Raise(q, "NameError")

\* variant: linear_dependent_basis is tested before out_of_opt_cycles
Branch_linear_first(errs) ==
    IF "SCF_failed_to_converge" \in errs THEN "SCF_failed_to_converge"
    ELSE IF "linear_dependent_basis" \in errs THEN "linear_dependent_basis"
    ELSE IF "out_of_opt_cycles" \in errs THEN "out_of_opt_cycles"
    ELSE IF "unable_to_determine_lamda" \in errs THEN "unable_to_determine_lamda"
    ELSE IF "failed_to_transform_coords" \in errs THEN "failed_to_transform_coords"
    ELSE IF "input_file_error" \in errs THEN "input_file_error"
    ELSE IF "failed_to_read_input" \in errs THEN "failed_to_read_input"
    ELSE IF "IO_error" \in errs THEN "IO_error"
    ELSE IF "cannot_read_charges" \in errs THEN "cannot_read_charges"
    ELSE IF "unknown_error" \in errs THEN "unknown_error"
    ELSE "else"

\* the tag whose branch the elif chain takes ("else": none of them)
Branch(errs) ==
    IF "SCF_failed_to_converge" \in errs THEN "SCF_failed_to_converge"
    ELSE IF "out_of_opt_cycles" \in errs THEN "out_of_opt_cycles"
    ELSE IF "unable_to_determine_lamda" \in errs THEN "unable_to_determine_lamda"
    ELSE IF "linear_dependent_basis" \in errs THEN "linear_dependent_basis"
    ELSE IF "failed_to_transform_coords" \in errs THEN "failed_to_transform_coords"
    ELSE IF "input_file_error" \in errs THEN "input_file_error"
    ELSE IF "failed_to_read_input" \in errs THEN "failed_to_read_input"
    ELSE IF "IO_error" \in errs THEN "IO_error"
    ELSE IF "cannot_read_charges" \in errs THEN "cannot_read_charges"
    ELSE IF "unknown_error" \in errs THEN "unknown_error"
    ELSE "else"

RunBranch(b, q, out, scfLim, geomLim) ==
    CASE b = "SCF_failed_to_converge" -> SCF_failed_to_converge(q, scfLim)
      [] b = "out_of_opt_cycles" -> out_of_opt_cycles(q, scfLim, geomLim)
      [] b = "unable_to_determine_lamda" -> unable_to_determine_lamda(q, out)
      [] b = "linear_dependent_basis" -> linear_dependent_basis(q)
      [] b = "failed_to_transform_coords" -> failed_to_transform_coords(q)
      [] b = "input_file_error" -> Early(q, ActNone)
      [] b = "failed_to_read_input" -> Early(q, ActStr("rerun job as-is"))
      [] b = "IO_error" -> Early(q, ActStr("rerun job as-is"))
      [] b = "cannot_read_charges" -> Early(q, ActNone)
      [] b = "unknown_error" -> Early(q, ActNone)
      [] OTHER -> else_branch(q)

\* the statements after the elif chain: write_file is reached by the
\* branches that fall through, whatever the action list holds
ReachesWrite(r) == r.end = "fall"

\* QCInput.write_file: the file holds the deck
write_file(q) == q

\* the whole of correct(): deck, file, return value
correct(q, file, errs, out, scfLim, geomLim) ==
    LET b == Branch(errs)
        r == RunBranch(b, q, out, scfLim, geomLim)
        w == ReachesWrite(r)
    IN  [qcinp  |-> r.qcinp,
         disk   |-> IF w THEN write_file(r.qcinp) ELSE file,
         wrote  |-> w,
         branch |-> b,
         ret    |-> CASE r.end = "fall" ->
                           [outcome |-> "return", errors |-> errs, actions |-> ActList(r.actions)]
                      [] r.end = "return" ->
                           [outcome |-> "return", errors |-> errs, actions |-> r.early]
                      [] OTHER ->
                           [outcome |-> r.end, errors |-> {}, actions |-> ActNone]]

----------------------------------------------------------------------------
(* The remedy a returned action list stands for, per branch *)

RungOf(b, acts) ==
    IF acts = <<>> THEN 3
    ELSE IF b = "unable_to_determine_lamda"
    THEN (IF acts[1].key = "molecule" THEN 1 ELSE 2)
    ELSE IF b = "SCF_failed_to_converge"
    THEN (IF acts[1].key = "max_scf_cycles" THEN 1 ELSE 2)
    ELSE 1

----------------------------------------------------------------------------
(* QChemErrorHandler: construction, check(), correct() *)

InitHandler(q) ==
    /\ qcinp = q
    /\ disk = write_file(q)
    /\ scf_max_cycles \in ScfLimitVals
    /\ geom_max_cycles \in GeomLimitVals
    /\ outdata = None
    /\ errors = None
    /\ pc = "check"
    /\ ret = NoRet
    /\ pre = [qcinp |-> q, disk |-> write_file(q)]
    /\ wrote = FALSE
    /\ branch = "none"
    /\ rung = 0
    /\ edits = 0
    /\ adoptions = 0
    /\ scfh = [state |-> "absent", attrs |-> EmptyDict]

Init ==
    \E r \in RemVals : InitHandler([rem |-> r, molecule |-> InputMolecule])

\* check() on an output file that parses to one of `outs`
CheckOf(outs) ==
    /\ pc = "check"
    /\ \E o \in outs :
           /\ outdata' = Some(o)
           /\ errors' = Some(o.errors)
           /\ pc' = IF Cardinality(o.errors) > 0 THEN "correct" ELSE "done"
    /\ UNCHANGED <<qcinp, disk, scf_max_cycles, geom_max_cycles, ret, pre,
                   wrote, branch, rung, edits, adoptions, scfh>>

Check == CheckOf(OutFiles)

Correct ==
    /\ pc = "correct"
    /\ edits < MaxEdits
    /\ LET c == correct(qcinp, disk, errors[1], outdata[1], scf_max_cycles, geom_max_cycles)
           returned == c.ret.outcome = "return"
           edited == returned /\ c.ret.actions.type = "list" /\ c.ret.actions.list # <<>>
       IN  /\ qcinp' = c.qcinp
           /\ disk' = c.disk
           /\ ret' = c.ret
           /\ wrote' = c.wrote
           /\ branch' = c.branch
           /\ rung' = IF returned /\ c.ret.actions.type = "list"
                      THEN RungOf(c.branch, c.ret.actions.list) ELSE rung
           /\ edits' = IF edited THEN edits + 1 ELSE edits
           /\ adoptions' = IF edited /\ c.ret.actions.list[1].key = "molecule"
                           THEN adoptions + 1 ELSE adoptions
           /\ pc' = IF returned THEN "run" ELSE "crashed"
    /\ pre' = [qcinp |-> qcinp, disk |-> disk]
    /\ UNCHANGED <<scf_max_cycles, geom_max_cycles, outdata, errors, scfh>>

Next == Check \/ Correct

Spec == Init /\ [][Next]_vars

----------------------------------------------------------------------------
(* The caller's loop check() -> correct() -> run again, for a run that     *)
(* keeps reporting the same single tag that correct() has an edit for.     *)

EditTags ==
    {"SCF_failed_to_converge", "out_of_opt_cycles", "unable_to_determine_lamda",
     "linear_dependent_basis", "failed_to_transform_coords"}

\* the job is run again with the input file as correct() left it
Run ==
    /\ pc = "run"
    /\ pc' = "check"
    /\ UNCHANGED <<qcinp, disk, scf_max_cycles, geom_max_cycles, outdata, errors, ret,
                   pre, wrote, branch, rung, edits, adoptions, scfh>>

\* the outputs of a job that fails with one tag of EditTags, the same on every
\* run, each run with a trajectory and a last geometry of its own
SameTagOutFiles ==
    {o \in OutFiles :
        IF errors = None THEN \E t \in EditTags : o.errors = {t}
        ELSE o.errors = errors[1]}

CheckSame == CheckOf(SameTagOutFiles)

NextLoop == CheckSame \/ Correct \/ Run

SpecLoop == Init /\ [][NextLoop]_vars

----------------------------------------------------------------------------
(* QChemSCFErrorHandler *)

\* variant: __init__ takes geom_max_cycles, as QChemErrorHandler.__init__ does
SCFInitParams_with_geom ==
    {"self", "input_file", "output_file", "rca_gdm_thresh", "scf_max_cycles",
     "geom_max_cycles", "qchem_job"}

\* the parameters of __init__
SCFInitParams ==
    {"self", "input_file", "output_file", "rca_gdm_thresh", "scf_max_cycles", "qchem_job"}

\* the statements of __init__: self.<attribute> = <name read>
SCFInitBody ==
    << <<"input_file", "input_file">>,
       <<"output_file", "output_file">>,
       <<"scf_max_cycles", "scf_max_cycles">>,
       <<"geom_max_cycles", "geom_max_cycles">>,
       <<"qcinp", "QCInput">>,
       <<"outdata", "None">>,
       <<"errors", "None">>,
       <<"qchem_job", "qchem_job">> >>

\* the value a statement of __init__ stores
SCFInitValue(name, args, file) ==
    IF name = "QCInput" THEN file
    ELSE IF name = "None" THEN None
    ELSE get(args, name, DefaultMaxCycles)

RECURSIVE SCFInitFrom(_, _, _, _)
SCFInitFrom(i, attrs, args, file) ==
    IF i > Len(SCFInitBody) THEN [state |-> "constructed", attrs |-> attrs]
    ELSE IF ~NameDefined(SCFInitBody[i][2], SCFInitParams)
    THEN [state |-> "NameError", attrs |-> attrs]
    ELSE SCFInitFrom(i + 1,
                     setitem(attrs, SCFInitBody[i][1], SCFInitValue(SCFInitBody[i][2], args, file)),
                     args, file)

SCFInitArgs ==
    [input_file : {"mol.qcin", "opt.qcin"}, output_file : {"mol.qcout", "opt.qcout"},
     rca_gdm_thresh : {"1.0E-3", "1.0E-5"}, scf_max_cycles : ScfLimitVals,
     qchem_job : {"None", "job"}]

SCFInit ==
    /\ scfh.state = "absent"
    /\ \E args \in SCFInitArgs : scfh' = SCFInitFrom(1, EmptyDict, args, disk)
    /\ UNCHANGED <<qcinp, disk, scf_max_cycles, geom_max_cycles, outdata, errors,
                   pc, ret, pre, wrote, branch, rung, edits, adoptions>>

\* QChemSCFErrorHandler.correct: the return value for the captured tags
SCFcorrect(errs) == [outcome |-> "return", errors |-> errs, actions |-> ActNone]

NextSCF == SCFInit

SpecSCF == Init /\ [][NextSCF]_vars

----------------------------------------------------------------------------
(* Vocabulary of the properties *)

\* the state right after a correct() call
AfterCorrect == pc \in {"run", "crashed"}

Returned == ret.outcome = "return"
ReturnedList == Returned /\ ret.actions.type = "list"
ReturnedEdits == ReturnedList /\ ret.actions.list # <<>>
ReturnedNoEdits == Returned /\ (ret.actions.type # "list" \/ ret.actions.list = <<>>)

\* the call ended in an exception: no {errors, actions} record, nothing changed
EndedIn(exc) ==
    /\ ret.outcome = exc
    /\ ret.errors = {}
    /\ ret.actions = ActNone
    /\ qcinp = pre.qcinp
    /\ disk = pre.disk
    /\ ~wrote

\* setting k differs between the decks a and b
Differs(a, b, k) ==
    IF k = "molecule" THEN a.molecule # b.molecule
    ELSE \/ (k \in DOMAIN a.rem) # (k \in DOMAIN b.rem)
         \/ (k \in DOMAIN a.rem /\ k \in DOMAIN b.rem /\ a.rem[k] # b.rem[k])

SettingsIn(a, b) == DOMAIN a.rem \cup DOMAIN b.rem \cup {"molecule"}

ChangedSettings(a, b) == {k \in SettingsIn(a, b) : Differs(a, b, k)}

\* the order of the tags as the specification lists them
TagOrder ==
    <<"SCF_failed_to_converge", "out_of_opt_cycles", "unable_to_determine_lamda",
      "linear_dependent_basis", "failed_to_transform_coords", "input_file_error",
      "failed_to_read_input", "IO_error", "cannot_read_charges", "unknown_error">>

TestedTags == {TagOrder[i] : i \in DOMAIN TagOrder}

FirstPresent(E) ==
    IF E \cap TestedTags = {} THEN "else"
    ELSE TagOrder[CHOOSE i \in DOMAIN TagOrder :
                    /\ TagOrder[i] \in E
                    /\ \A j \in DOMAIN TagOrder : TagOrder[j] \in E => i <= j]

\* the settings the remediation of a tag edits
SettingsOf(t) ==
    CASE t = "SCF_failed_to_converge" -> {"max_scf_cycles", "scf_algorithm"}
      [] t = "out_of_opt_cycles" -> {"geom_opt_max_cycles"}
      [] t = "unable_to_determine_lamda" -> {"molecule", "scf_algorithm"}
      [] t = "linear_dependent_basis" -> {"scf_algorithm"}
      [] t = "failed_to_transform_coords" -> {"sym_ignore", "symmetry"}
      [] OTHER -> {}

\* the single tag of the job, in SpecLoop
OnlyTag == CHOOSE t \in errors[1] : TRUE

----------------------------------------------------------------------------
(* C1 *)

\* C1: a correct() call that returns actions [], None or "rerun job as-is"
\* performs no write of the input file, and the file is as it was before
\* the call.
C1_NoWriteWithoutActions ==
    (AfterCorrect /\ ReturnedNoEdits) => (~wrote /\ disk = pre.disk)

----------------------------------------------------------------------------
(* C2 *)

ActionPersisted(a) ==
    IF a.key = "molecule"
    THEN a.value = "molecule_from_last_geometry"
         /\ disk.molecule = outdata[1].molecule_from_last_geometry
    ELSE a.key \in DOMAIN disk.rem /\ disk.rem[a.key] = a.value

\* C2: when correct() returns a non-empty actions list, every action record
\* {key: value} names a setting of the written file whose value is that value,
\* and no setting outside the recorded keys differs from its value before the
\* call.
C2_FileReflectsActions ==
    (AfterCorrect /\ ReturnedEdits) =>
        LET acts == ret.actions.list
            keys == {acts[i].key : i \in DOMAIN acts}
        IN  /\ \A i \in DOMAIN acts : ActionPersisted(acts[i])
            /\ ChangedSettings(pre.disk, disk) \subseteq keys

----------------------------------------------------------------------------
(* C9 *)

\* setting k of the deck was raised to lim, or left alone, and never lowered
RaisedOnly(k, lim) ==
    LET old == pre.qcinp.rem
        new == qcinp.rem
    IN  /\ Differs(pre.qcinp, qcinp, k) =>
               /\ (k \notin DOMAIN old \/ old[k] < lim)
               /\ k \in DOMAIN new /\ new[k] = lim
        /\ k \in DOMAIN old => (k \in DOMAIN new /\ new[k] >= old[k])

\* C9: the SCF_failed_to_converge branch changes max_scf_cycles only when it
\* is unset or below scf_max_cycles, then sets it to that limit, and never
\* lowers it; the out_of_opt_cycles branch never lowers geom_opt_max_cycles.
C9_CapsNeverLowered ==
    AfterCorrect =>
        /\ FirstPresent(errors[1]) = "SCF_failed_to_converge"
               => RaisedOnly("max_scf_cycles", scf_max_cycles)
        /\ FirstPresent(errors[1]) = "out_of_opt_cycles"
               => RaisedOnly("geom_opt_max_cycles", geom_max_cycles)

----------------------------------------------------------------------------
(* C4 *)

----------------------------------------------------------------------------
(* C5 *)

\* scf_algorithm is rca_diis already, in either case of the letters
AlreadyRcaDiis(q) ==
    "scf_algorithm" \in DOMAIN q.rem /\ q.rem["scf_algorithm"] \in {"rca_diis", "RCA_DIIS"}

SpinAndChargeKept(q, out) ==
    /\ q.molecule.spin_multiplicity = out.molecule_from_last_geometry.spin_multiplicity
    /\ q.molecule.charge = out.molecule_from_last_geometry.charge

----------------------------------------------------------------------------
(* C6 *)

\* C6: in the unable_to_determine_lamda branch with a multi-step trajectory
\* the molecule is replaced only if spin multiplicity and charge of the last
\* geometry equal those of the deck before the call; if either differs the
\* call ends in an AssertionError with the molecule unchanged, no record
\* returned and no write of the input file.
C6_SpinChargeAsserted ==
    (/\ AfterCorrect
     /\ FirstPresent(errors[1]) = "unable_to_determine_lamda"
     /\ Len(outdata[1].energy_trajectory) > 1) =>
        IF SpinAndChargeKept(pre.qcinp, outdata[1])
        THEN Returned /\ qcinp.molecule = outdata[1].molecule_from_last_geometry
        ELSE EndedIn("AssertionError") /\ pc = "crashed"

\* the charge of the last geometry differed, its spin multiplicity did not
C6_Witness ==
    /\ AfterCorrect
    /\ FirstPresent(errors[1]) = "unable_to_determine_lamda"
    /\ Len(outdata[1].energy_trajectory) > 1
    /\ outdata[1].molecule_from_last_geometry.charge # pre.qcinp.molecule.charge
    /\ outdata[1].molecule_from_last_geometry.spin_multiplicity
           = pre.qcinp.molecule.spin_multiplicity
    /\ ret.outcome = "AssertionError"

----------------------------------------------------------------------------
(* C7 *)

\* C7: a correct() call with a non-empty tag set that holds none of the tags
\* the elif chain tests ends in a NameError: no record is returned, the deck
\* is unchanged and the input file is not written.
C7_FallthroughCrashes ==
    (AfterCorrect /\ errors[1] # {} /\ errors[1] \cap TestedTags = {}) =>
        EndedIn("NameError") /\ pc = "crashed"

C7_Witness ==
    /\ AfterCorrect
    /\ errors[1] = {"basis_not_supported"}
    /\ branch = "else"
    /\ ret.outcome = "NameError"

----------------------------------------------------------------------------
(* C8 *)

\* C8: constructing a QChemSCFErrorHandler fails for every combination of
\* arguments, at the read of geom_max_cycles, so that no instance exists to
\* call check() or correct() on; its correct() would return the captured tags
\* with actions None.
C8_SCFHandlerNeverConstructed ==
    /\ scfh.state # "constructed"
    /\ scfh.state # "absent" =>
           /\ scfh.state = "NameError"
           /\ DOMAIN scfh.attrs = {"input_file", "output_file", "scf_max_cycles"}
    /\ \A E \in ErrorSets :
           /\ SCFcorrect(E).errors = E
           /\ SCFcorrect(E).actions.type = "NoneType"

\* a construction was tried with a cycle limit that is not the default
C8_Witness ==
    /\ scfh.state = "NameError"
    /\ scfh.attrs["scf_max_cycles"] # DefaultMaxCycles
    /\ scfh.attrs["input_file"] = "opt.qcin"

----------------------------------------------------------------------------
(* C3 *)

\* a correct() call that returns
CorrectReturns == pc = "correct" /\ pc' = "run"

\* for a job whose tag is in `tags`, the remedy of a call is never an earlier
\* one than the remedy of the call before it
NoRegress(tags) == (CorrectReturns /\ OnlyTag \in tags) => rung' >= rung

\* SCF_failed_to_converge: cap increase, then algorithm switch, then defer,
\* each edit at most once and with the actions the ladder names
ScfLadderStep ==
    (CorrectReturns /\ OnlyTag = "SCF_failed_to_converge") =>
        /\ rung' = 3 \/ rung' > rung
        /\ rung' = 1 =>
               /\ ret'.actions.list = <<Act("max_scf_cycles", scf_max_cycles)>>
               /\ qcinp'.rem["max_scf_cycles"] = scf_max_cycles
               /\ ChangedSettings(qcinp, qcinp') = {"max_scf_cycles"}
        /\ rung' = 2 =>
               /\ ret'.actions.list = <<Act("scf_algorithm", "rca_diis")>>
               /\ qcinp'.rem["scf_algorithm"] = "rca_diis"
               /\ ChangedSettings(qcinp, qcinp') = {"scf_algorithm"}
        /\ rung' = 3 =>
               /\ ret'.actions.list = <<>>
               /\ qcinp' = qcinp

\* C3 as stated: for a job with one tag that has an edit, repeated correct()
\* calls on the handler go up the ladder of that tag and never apply an
\* earlier remedy again; for SCF_failed_to_converge the ladder is cap
\* increase, algorithm switch, defer.
C3_LadderNeverRegresses == [][NoRegress(EditTags) /\ ScfLadderStep]_vars

\* C3 as amended: the same for every tag but unable_to_determine_lamda, whose
\* first remedy (adopting the last geometry) is applied again, also after the
\* algorithm switch or the deferral, on every run with more than one step.
C3_LadderExceptAdoption ==
    [][/\ NoRegress(EditTags \ {"unable_to_determine_lamda"})
       /\ ScfLadderStep
       /\ (CorrectReturns /\ OnlyTag = "unable_to_determine_lamda" /\ rung' < rung) =>
              /\ rung' = 1
              /\ Len(outdata[1].energy_trajectory) > 1
              /\ qcinp'.molecule = outdata[1].molecule_from_last_geometry]_vars

\* the SCF ladder was gone up: cap increase, then algorithm switch
C3_Witness ==
    /\ AfterCorrect
    /\ OnlyTag = "SCF_failed_to_converge"
    /\ rung = 2
    /\ edits = 2
    /\ ChangedSettings(pre.qcinp, qcinp) = {"scf_algorithm"}

----------------------------------------------------------------------------
(* C10 *)

====
